---- MODULE Spec2Model ----
(***************************************************************************)
(* Lifecycle controller of the octave-chartjs web server (src/webserve.cc):*)
(* the globals app, is_routed, crow_server and served_html, the DLD entry  *)
(* point __webserve__ (Start / Stop), stop_crow, and the background thread *)
(* run_crow.  Controller calls are executed statement by statement; the    *)
(* listener threads are scheduled arbitrarily between the statements.      *)
(***************************************************************************)
EXTENDS Integers, Sequences, FiniteSets, TLC

(* ---------------------------- bounds ---------------------------------- *)
\* number of calls of __webserve__ in one behaviour
MaxCalls == 4

(* ------------------------ program constants --------------------------- *)
DefaultAddr == "0.0.0.0"
DefaultHtml == "This is an Octave WebServer instance!"
DefaultPort == 8080

(* --------------------------- environment ------------------------------ *)
\* ports held by other processes: binding them fails
ForeignPorts == {7000}
\* address strings the operating system can bind
ValidAddrs == {"0.0.0.0"}

\* callers of __webserve__; the interpreter runs one call at a time
Callers == {1, 2}
SerialCallers == {1}

(* ------------------------- octave values ------------------------------ *)
\* an octave_value: class, number of elements, and the value; a double
\* carries its value in tenths (v10 = 10 * value) so that the conversion
\* int_value () has a fractional part to drop
Str(s)  == [cls |-> "char",   n |-> 1, s |-> s,  v10 |-> 0]
Num(v)  == [cls |-> "double", n |-> 1, s |-> "", v10 |-> v]
NumMat  == [cls |-> "double", n |-> 2, s |-> "", v10 |-> 0]

isnumeric(a)      == a.cls = "double"
is_scalar_type(a) == a.n = 1
is_string(a)      == a.cls = "char"
string_value(a)   == a.s
\* octave_value::int_value () without require_int: fix (d), truncation
\* toward zero
int_value(a) ==
  IF a.v10 >= 0 THEN a.v10 \div 10 ELSE 0 - ((0 - a.v10) \div 10)

\* argument values offered to __webserve__
ArgLists ==
  { <<>>, <<Str("A")>>, <<Str("B")>>,
    <<Str("A"), Num(90000)>>, <<Str("B"), Num(90000)>>,
    <<Str("B"), Num(70000)>>, <<Str("A"), Num(90005)>>,
    <<Str("B"), Num(90000), Str("bogus")>>,
    <<Num(0)>>, <<Num(0), Str("9000"), Num(10)>>, <<Num(5)>>,
    <<Num(50)>>, <<NumMat>>, <<Str("A"), Str("9000")>>,
    <<Str("A"), NumMat>>, <<Str("A"), Num(90000), Num(10)>> }

(* ------------------- argument parsing of __webserve__ ----------------- *)
\* variant of the sentinel test that takes 0 for the sentinel only when it
\* is the only argument
IsStop_OnlyAlone(args) ==
  /\ Len(args) = 1
  /\ isnumeric(args[1]) /\ is_scalar_type(args[1]) /\ int_value(args[1]) = 0

\* lines 96-97: the stop sentinel test
IsStop(args) ==
  /\ Len(args) > 0
  /\ isnumeric(args[1]) /\ is_scalar_type(args[1]) /\ int_value(args[1]) = 0

\* lines 103-133: the three type checks; any failing one calls error ()
HtmlOk(args) == Len(args) > 0 => is_string(args[1])
PortOk(args) == Len(args) > 1 => (isnumeric(args[2]) /\ is_scalar_type(args[2]))
AddrOk(args) == Len(args) > 2 => is_string(args[3])

\* the outcome of lines 87-133
Op(args) ==
  IF IsStop(args) THEN "stop"
  ELSE IF HtmlOk(args) /\ PortOk(args) /\ AddrOk(args) THEN "start"
  ELSE "error"

\* the locals html, port, addr after parsing
Html(args) == IF Len(args) > 0 THEN string_value(args[1]) ELSE DefaultHtml
\* variant of the port default: the library's own port instead of line 90
Port_LibraryDefault(args) ==
  IF Len(args) > 1 THEN int_value(args[2]) ELSE 80

Port(args) == IF Len(args) > 1 THEN int_value(args[2]) ELSE DefaultPort
Addr(args) == IF Len(args) > 2 THEN string_value(args[3]) ELSE DefaultAddr

(* ------------------------------ state --------------------------------- *)
VARIABLES
  app,          \* crow::SimpleApp app
  is_routed,    \* bool is_routed
  crow_server,  \* thread *crow_server: 0 is nullptr, else index in threads
  served_html,  \* string served_html
  threads,      \* every std::thread created so far, in creation order
  mlocked,      \* the interpreter's lock on the function (mlock / munlock)
  pc,           \* per caller: the statement it is about to execute
  call,         \* per caller: the arguments and the result of its call
  entry,        \* per caller: the globals as they were when the call began
  ncalls,       \* calls of __webserve__ made so far
  resp,         \* the body of the response a client received last
  last          \* the kind of the Start / Stop call that returned last, and
                \* the document of the valid Start that returned last

vars == <<app, is_routed, crow_server, served_html, threads, mlocked,
          pc, call, entry, ncalls, resp, last>>

\* a freshly constructed crow::SimpleApp: no route, and the library's own
\* bind parameters (0.0.0.0:80) until bindaddr () / port () are called
FreshApp == [alive |-> TRUE, routes |-> 0, bindaddr |-> "0.0.0.0", port |-> 80]

\* locks / unlocks count the invocations of interp.mlock () and
\* interp.munlock () made by the call
NoCall == [args |-> <<>>, res |-> "none", locks |-> 0, unlocks |-> 0]

\* a thread that has been started and has not left run_crow
Live(th) == th.st \notin {"exited", "failed"}
LiveIn(ths) == {t \in 1..Len(ths) : Live(ths[t])}

\* what a call remembers of the state it started from
Snapshot == [is_routed |-> is_routed, crow_server |-> crow_server,
             served_html |-> served_html, routes |-> app.routes,
             mlocked |-> mlocked, nthreads |-> Len(threads),
             live |-> LiveIn(threads),
             hst |-> IF crow_server = 0 THEN "none"
                     ELSE threads[crow_server].st,
             hbport |-> IF crow_server = 0 THEN 0
                        ELSE threads[crow_server].bport]
NoEntry == [is_routed |-> FALSE, crow_server |-> 0, served_html |-> "",
            routes |-> 0, mlocked |-> FALSE, nthreads |-> 0, live |-> {},
            hst |-> "none", hbport |-> 0]

NoLast == [op |-> "none", doc |-> {}]

Init ==
  /\ app = FreshApp
  /\ is_routed = FALSE
  /\ crow_server = 0
  /\ served_html = ""
  /\ threads = <<>>
  /\ mlocked = FALSE
  /\ pc = [c \in Callers |-> "idle"]
  /\ call = [c \in Callers |-> NoCall]
  /\ entry = [c \in Callers |-> NoEntry]
  /\ ncalls = 0
  /\ resp = "none"
  /\ last = NoLast

(* ------------------------- listener threads --------------------------- *)
ThreadIds == 1..Len(threads)
\* threads that hold a listening socket: they bound one in app.run () and
\* have not left run_crow
Holding(th) ==
  /\ th.st \in {"listening", "stopping", "dangling", "wedged"}
  /\ th.bport # 0
HeldPorts == {threads[t].bport : t \in {u \in ThreadIds : Holding(threads[u])}}

\* bind + listen inside app.run (): fails on a foreign or occupied port
\* and on an address that cannot be bound
CanBind(addr, port) ==
  /\ addr \in ValidAddrs
  /\ port \notin ForeignPorts
  /\ port \notin HeldPorts

SetThread(t, st) == [threads EXCEPT ![t].st = st]
\* run_crow is left: its parameters addr and port and its socket are gone
Left(th, st) == [th EXCEPT !.st = st, !.addr = "", !.port = 0, !.bport = 0]

ctlUnchanged == UNCHANGED <<is_routed, crow_server, served_html, mlocked,
                            pc, call, entry, ncalls, resp, last>>

\* run_crow, lines 42-44: app.bindaddr (addr).loglevel (..).port (port)
ThreadConfig(t) ==
  /\ threads[t].st = "created"
  /\ IF app.alive
       THEN /\ app' = [app EXCEPT !.bindaddr = threads[t].addr,
                                  !.port = threads[t].port]
            /\ threads' = SetThread(t, "configured")
       ELSE \* member call on a destroyed object
            /\ app' = app
            /\ threads' = SetThread(t, "dangling")
  /\ ctlUnchanged

\* run_crow, line 45: .run () binds the configured address and port and
\* enters the accept loop, or returns when the bind fails
ThreadRun(t) ==
  /\ threads[t].st = "configured"
  /\ IF ~app.alive
       THEN threads' = SetThread(t, "dangling")
       ELSE IF CanBind(app.bindaddr, app.port)
         THEN threads' = [threads EXCEPT ![t].st = "listening",
                                         ![t].bport = app.port]
         ELSE threads' = [threads EXCEPT ![t] = Left(@, "failed")]
  /\ UNCHANGED app
  /\ ctlUnchanged

\* run () returns after app.stop () signalled it; run_crow ends
ThreadExit(t) ==
  /\ threads[t].st = "stopping"
  /\ threads' = [threads EXCEPT ![t] = Left(@, "exited")]
  /\ UNCHANGED app
  /\ ctlUnchanged

\* a thread inside an app object that was destroyed under it (undefined
\* behaviour): it may leave run_crow, or stay blocked in the accept loop
ThreadDangling(t) ==
  /\ threads[t].st = "dangling"
  /\ \/ threads' = [threads EXCEPT ![t] = Left(@, "exited")]
     \/ threads' = SetThread(t, "wedged")
  /\ UNCHANGED app
  /\ ctlUnchanged

\* ... or it may bring the whole process down, and all its state with it
ThreadCrash(t) ==
  /\ threads[t].st = "dangling"
  /\ threads' = <<>>
  /\ app' = FreshApp
  /\ is_routed' = FALSE
  /\ crow_server' = 0
  /\ served_html' = ""
  /\ mlocked' = FALSE
  /\ pc' = [c \in Callers |-> "aborted"]
  /\ call' = [c \in Callers |-> NoCall]
  /\ entry' = [c \in Callers |-> NoEntry]
  /\ ncalls' = 0
  /\ resp' = "none"
  /\ last' = NoLast

\* the body a GET / receives from listener t: the route lambda returns
\* served_html; without a bound route the library answers 404
Response(t) ==
  IF threads[t].st # "listening" THEN "no answer"
  ELSE IF app.alive /\ app.routes > 0 THEN served_html
  ELSE "404 Not Found"

\* the callers that are in the middle of writing served_html (line 144)
Writers == {c \in Callers : pc[c] = "l144w"}

\* the bodies the route lambda (line 140) can return for a GET accepted
\* now: served_html.c_str (); read while a caller is writing served_html
\* it is a data race, and the read yields the old text, the new text or,
\* when the two differ, a mixture of them
Bodies ==
  LET new == {Html(call[c].args) : c \in Writers}
  IN  {served_html} \cup new
        \cup (IF new \subseteq {served_html} THEN {} ELSE {"<torn>"})

\* the answers a GET / accepted by listener t now can receive: the body
\* of the root route, or the library's 404 when the instance has no route
Answers(t) ==
  IF threads[t].st # "listening" \/ ~app.alive THEN {}
  ELSE IF app.routes > 0 THEN Bodies
  ELSE {"404 Not Found"}

\* a client sends GET / to listener t and receives the answer
Request(t) ==
  /\ resp' \in Answers(t)
  /\ UNCHANGED <<app, is_routed, crow_server, served_html, threads, mlocked,
                 pc, call, entry, ncalls, last>>

(* ------------------------- controller calls --------------------------- *)
Goto(c, l) == pc' = [pc EXCEPT ![c] = l]

\* the number of calls made when two callers are let into __webserve__
\* without the interpreter serialising them
RaceCalls == 2

\* __webserve__ entered by a caller while the other may be inside it: the
\* code takes no lock on entry (lines 78-133 touch locals only)
CallRace(c, args) ==
  /\ pc[c] = "idle"
  /\ ncalls < RaceCalls
  /\ ncalls' = ncalls + 1
  /\ call' = [call EXCEPT ![c] =
       [args |-> args, res |-> IF Op(args) = "error" THEN "error" ELSE "ok",
        locks |-> 0, unlocks |-> 0]]
  /\ entry' = [entry EXCEPT ![c] = Snapshot]
  /\ Goto(c, CASE Op(args) = "stop"  -> "l54"
               [] Op(args) = "start" -> "l136"
               [] OTHER              -> "ret")
  /\ UNCHANGED <<app, is_routed, crow_server, served_html, threads, mlocked,
                 resp, last>>

\* __webserve__ is entered: lines 87-133 parse the arguments (locals only)
\* and pick the branch; error () leaves the function at once
Call(c, args) ==
  /\ \A d \in Callers : pc[d] = "idle"
  /\ ncalls < MaxCalls
  /\ ncalls' = ncalls + 1
  /\ call' = [call EXCEPT ![c] =
       [args |-> args, res |-> IF Op(args) = "error" THEN "error" ELSE "ok",
        locks |-> 0, unlocks |-> 0]]
  /\ entry' = [entry EXCEPT ![c] = Snapshot]
  /\ Goto(c, CASE Op(args) = "stop"  -> "l54"
               [] Op(args) = "start" -> "l136"
               [] OTHER              -> "ret")
  /\ UNCHANGED <<app, is_routed, crow_server, served_html, threads, mlocked,
                 resp, last>>

\* variant of line 136 that forgets the flag and always goes on to bind
Line136_AlwaysRoute(c) ==
  /\ pc[c] = "l136"
  /\ Goto(c, "l139")
  /\ UNCHANGED <<app, is_routed, crow_server, served_html, threads, mlocked,
                 call, entry, ncalls, resp, last>>

\* line 136: if (! is_routed)
Line136(c) ==
  /\ pc[c] = "l136"
  /\ Goto(c, IF ~is_routed THEN "l139" ELSE "l144")
  /\ UNCHANGED <<app, is_routed, crow_server, served_html, threads, mlocked,
                 call, entry, ncalls, resp, last>>

\* lines 139-140: CROW_ROUTE (app, "/") (...)
Line139(c) ==
  /\ pc[c] = "l139"
  /\ app' = [app EXCEPT !.routes = @ + 1]
  /\ Goto(c, "l141")
  /\ UNCHANGED <<is_routed, crow_server, served_html, threads, mlocked,
                 call, entry, ncalls, resp, last>>

\* line 141: is_routed = true
Line141(c) ==
  /\ pc[c] = "l141"
  /\ is_routed' = TRUE
  /\ Goto(c, "l144")
  /\ UNCHANGED <<app, crow_server, served_html, threads, mlocked,
                 call, entry, ncalls, resp, last>>

\* line 144: served_html = html.  The assignment of a std::string is not
\* atomic: it starts here ...
Line144(c) ==
  /\ pc[c] = "l144"
  /\ Goto(c, "l144w")
  /\ UNCHANGED <<app, is_routed, crow_server, served_html, threads, mlocked,
                 call, entry, ncalls, resp, last>>

\* variant of the assignment that never stores the document
Line144w_Skip(c) ==
  /\ pc[c] = "l144w"
  /\ Goto(c, "l147")
  /\ UNCHANGED <<app, is_routed, crow_server, served_html, threads, mlocked,
                 call, entry, ncalls, resp, last>>

\* ... and is complete here
Line144w(c) ==
  /\ pc[c] = "l144w"
  /\ served_html' = Html(call[c].args)
  /\ Goto(c, "l147")
  /\ UNCHANGED <<app, is_routed, crow_server, threads, mlocked,
                 call, entry, ncalls, resp, last>>

\* variant of line 147 that launches a thread whatever the handle holds
Line147_AlwaysLaunch(c) ==
  /\ pc[c] = "l147"
  /\ Goto(c, "l149")
  /\ UNCHANGED <<app, is_routed, crow_server, served_html, threads, mlocked,
                 call, entry, ncalls, resp, last>>

\* line 147: if (! crow_server)
Line147(c) ==
  /\ pc[c] = "l147"
  /\ Goto(c, IF crow_server = 0 THEN "l149" ELSE "l154")
  /\ UNCHANGED <<app, is_routed, crow_server, served_html, threads, mlocked,
                 call, entry, ncalls, resp, last>>

\* line 149: crow_server = new thread (run_crow, addr, port)
Line149(c) ==
  /\ pc[c] = "l149"
  /\ threads' = Append(threads,
       [st |-> "created", det |-> FALSE, addr |-> Addr(call[c].args),
        port |-> Port(call[c].args), bport |-> 0])
  /\ crow_server' = Len(threads) + 1
  /\ Goto(c, "l150")
  /\ UNCHANGED <<app, is_routed, served_html, mlocked,
                 call, entry, ncalls, resp, last>>

\* line 150: crow_server->detach (); detach () of a thread that is not
\* joinable any more throws system_error, which leaves __webserve__
Line150(c) ==
  /\ pc[c] = "l150"
  /\ crow_server # 0
  /\ IF threads[crow_server].det
       THEN /\ threads' = threads
            /\ call' = [call EXCEPT ![c].res = "error"]
            /\ Goto(c, "ret")
       ELSE /\ threads' = [threads EXCEPT ![crow_server].det = TRUE]
            /\ call' = call
            /\ Goto(c, "l154")
  /\ UNCHANGED <<app, is_routed, crow_server, served_html, mlocked,
                 entry, ncalls, resp, last>>

\* line 150 when another call has reset the handle since line 149: the
\* member call through the null pointer brings the process down
Line150Null(c) ==
  /\ pc[c] = "l150"
  /\ crow_server = 0
  /\ threads' = <<>>
  /\ app' = FreshApp
  /\ is_routed' = FALSE
  /\ crow_server' = 0
  /\ served_html' = ""
  /\ mlocked' = FALSE
  /\ pc' = [d \in Callers |-> "aborted"]
  /\ call' = [d \in Callers |-> NoCall]
  /\ entry' = [d \in Callers |-> NoEntry]
  /\ ncalls' = 0
  /\ resp' = "none"
  /\ last' = NoLast

\* variant of line 154 that locks only when this call launched the listener
Line154_LockOnLaunch(c) ==
  /\ pc[c] = "l154"
  /\ mlocked' = (mlocked \/ Len(threads) > entry[c].nthreads)
  /\ call' = [call EXCEPT ![c].locks =
                IF Len(threads) > entry[c].nthreads THEN @ + 1 ELSE @]
  /\ Goto(c, "ret")
  /\ UNCHANGED <<app, is_routed, crow_server, served_html, threads,
                 entry, ncalls, resp, last>>

\* line 154: interp.mlock ()
Line154(c) ==
  /\ pc[c] = "l154"
  /\ mlocked' = TRUE
  /\ call' = [call EXCEPT ![c].locks = @ + 1]
  /\ Goto(c, "ret")
  /\ UNCHANGED <<app, is_routed, crow_server, served_html, threads,
                 entry, ncalls, resp, last>>

\* stop_crow, line 54: app.stop () signals every accept loop running on app
Line54(c) ==
  /\ pc[c] = "l54"
  /\ threads' = [t \in ThreadIds |->
       IF threads[t].st = "listening"
         THEN [threads[t] EXCEPT !.st = "stopping"] ELSE threads[t]]
  /\ Goto(c, "l59")
  /\ UNCHANGED <<app, is_routed, crow_server, served_html, mlocked,
                 call, entry, ncalls, resp, last>>

\* std::thread::join (), line 60: a thread that is not joinable (it was
\* detached) makes join () throw system_error; a joinable one is waited for
JoinOutcome(th) == IF th.det THEN "system_error" ELSE "joined"

\* variant of the handlers in which system_error is not swallowed
Caught_Nothing(e) == FALSE

\* lines 62-69: catch (system_error const&) swallows, catch (...) rethrows
Caught(e) == e = "system_error"

\* stop_crow, lines 56-69: try { if (crow_server) crow_server->join (); }
Line59(c) ==
  /\ pc[c] = "l59"
  /\ LET e == IF crow_server = 0 THEN "none"
              ELSE JoinOutcome(threads[crow_server])
     IN /\ e = "joined" => ~Live(threads[crow_server])
        /\ IF e \in {"none", "joined"} \/ Caught(e)
             THEN /\ Goto(c, "l70")
                  /\ call' = call
             ELSE \* the exception leaves stop_crow and __webserve__
                  /\ Goto(c, "ret")
                  /\ call' = [call EXCEPT ![c].res = "error"]
  /\ UNCHANGED <<app, is_routed, crow_server, served_html, threads, mlocked,
                 entry, ncalls, resp, last>>

\* stop_crow, line 70: crow_server = nullptr
Line70(c) ==
  /\ pc[c] = "l70"
  /\ crow_server' = 0
  /\ Goto(c, "l73")
  /\ UNCHANGED <<app, is_routed, served_html, threads, mlocked,
                 call, entry, ncalls, resp, last>>

\* stop_crow, line 73: app.~Crow (); a thread still inside app.run () is
\* left with a destroyed object
Line73(c) ==
  /\ pc[c] = "l73"
  /\ app' = [app EXCEPT !.alive = FALSE]
  /\ threads' = [t \in ThreadIds |->
       IF threads[t].st \in {"listening", "stopping"}
         THEN [threads[t] EXCEPT !.st = "dangling"] ELSE threads[t]]
  /\ Goto(c, "l74")
  /\ UNCHANGED <<is_routed, crow_server, served_html, mlocked,
                 call, entry, ncalls, resp, last>>

\* stop_crow, line 74: new (&app) crow::SimpleApp ()
Line74(c) ==
  /\ pc[c] = "l74"
  /\ app' = FreshApp
  /\ Goto(c, "l75")
  /\ UNCHANGED <<is_routed, crow_server, served_html, threads, mlocked,
                 call, entry, ncalls, resp, last>>

\* stop_crow, line 75: is_routed = false
Line75(c) ==
  /\ pc[c] = "l75"
  /\ is_routed' = FALSE
  /\ Goto(c, "l100")
  /\ UNCHANGED <<app, crow_server, served_html, threads, mlocked,
                 call, entry, ncalls, resp, last>>

\* line 100: interp.munlock ()
Line100(c) ==
  /\ pc[c] = "l100"
  /\ mlocked' = FALSE
  /\ call' = [call EXCEPT ![c].unlocks = @ + 1]
  /\ Goto(c, "ret")
  /\ UNCHANGED <<app, is_routed, crow_server, served_html, threads,
                 entry, ncalls, resp, last>>

\* lines 101 / 156 / error (): control is back in the interpreter
Return(c) ==
  /\ pc[c] = "ret"
  /\ call' = [call EXCEPT ![c] = NoCall]
  /\ entry' = [entry EXCEPT ![c] = NoEntry]
  /\ Goto(c, "idle")
  /\ last' = CASE Op(call[c].args) = "start"
                     -> [op |-> "start", doc |-> {Html(call[c].args)}]
                [] Op(call[c].args) = "stop" -> [last EXCEPT !.op = "stop"]
                [] OTHER -> last
  /\ UNCHANGED <<app, is_routed, crow_server, served_html, threads, mlocked,
                 ncalls, resp>>

Next ==
  \/ \E c \in SerialCallers : \E args \in ArgLists : Call(c, args)
  \/ \E c \in SerialCallers : Line136(c)
  \/ \E c \in SerialCallers : Line139(c)
  \/ \E c \in SerialCallers : Line141(c)
  \/ \E c \in SerialCallers : Line144(c)
  \/ \E c \in SerialCallers : Line144w(c)
  \/ \E c \in SerialCallers : Line147(c)
  \/ \E c \in SerialCallers : Line149(c)
  \/ \E c \in SerialCallers : Line150(c)
  \/ \E c \in SerialCallers : Line154(c)
  \/ \E c \in SerialCallers : Line54(c)
  \/ \E c \in SerialCallers : Line59(c)
  \/ \E c \in SerialCallers : Line70(c)
  \/ \E c \in SerialCallers : Line73(c)
  \/ \E c \in SerialCallers : Line74(c)
  \/ \E c \in SerialCallers : Line75(c)
  \/ \E c \in SerialCallers : Line100(c)
  \/ \E c \in SerialCallers : Return(c)
  \/ \E t \in ThreadIds : ThreadConfig(t)
  \/ \E t \in ThreadIds : ThreadRun(t)
  \/ \E t \in ThreadIds : ThreadExit(t)
  \/ \E t \in ThreadIds : ThreadDangling(t)
  \/ \E t \in ThreadIds : ThreadCrash(t)

\* the interpreter serialises the calls; the listener threads run freely
Spec == Init /\ [][Next]_vars

\* the calls made while clients are sending requests
ServeArgLists ==
  { <<>>, <<Str("A")>>, <<Str("B"), Num(90000)>>, <<Num(0)>> }

NextServe ==
  \/ \E c \in SerialCallers : \E args \in ServeArgLists : Call(c, args)
  \/ \E c \in SerialCallers : Line136(c)
  \/ \E c \in SerialCallers : Line139(c)
  \/ \E c \in SerialCallers : Line141(c)
  \/ \E c \in SerialCallers : Line144(c)
  \/ \E c \in SerialCallers : Line144w(c)
  \/ \E c \in SerialCallers : Line147(c)
  \/ \E c \in SerialCallers : Line149(c)
  \/ \E c \in SerialCallers : Line150(c)
  \/ \E c \in SerialCallers : Line154(c)
  \/ \E c \in SerialCallers : Line54(c)
  \/ \E c \in SerialCallers : Line59(c)
  \/ \E c \in SerialCallers : Line70(c)
  \/ \E c \in SerialCallers : Line73(c)
  \/ \E c \in SerialCallers : Line74(c)
  \/ \E c \in SerialCallers : Line75(c)
  \/ \E c \in SerialCallers : Line100(c)
  \/ \E c \in SerialCallers : Return(c)
  \/ \E t \in ThreadIds : ThreadConfig(t)
  \/ \E t \in ThreadIds : ThreadRun(t)
  \/ \E t \in ThreadIds : ThreadExit(t)
  \/ \E t \in ThreadIds : ThreadDangling(t)
  \/ \E t \in ThreadIds : ThreadCrash(t)
  \/ \E t \in ThreadIds : Request(t)

\* the same program with clients sending GET / to the listeners
SpecServe == Init /\ [][NextServe]_vars

\* the calls made by two callers that are not serialised
RaceArgLists ==
  { <<Str("A")>>, <<Str("B"), Num(90000)>>, <<Num(0)>>, <<NumMat>> }

NextRace ==
  \/ \E c \in Callers : \E args \in RaceArgLists : CallRace(c, args)
  \/ \E c \in Callers : Line136(c)
  \/ \E c \in Callers : Line139(c)
  \/ \E c \in Callers : Line141(c)
  \/ \E c \in Callers : Line144(c)
  \/ \E c \in Callers : Line144w(c)
  \/ \E c \in Callers : Line147(c)
  \/ \E c \in Callers : Line149(c)
  \/ \E c \in Callers : Line150(c)
  \/ \E c \in Callers : Line150Null(c)
  \/ \E c \in Callers : Line154(c)
  \/ \E c \in Callers : Line54(c)
  \/ \E c \in Callers : Line59(c)
  \/ \E c \in Callers : Line70(c)
  \/ \E c \in Callers : Line73(c)
  \/ \E c \in Callers : Line74(c)
  \/ \E c \in Callers : Line75(c)
  \/ \E c \in Callers : Line100(c)
  \/ \E c \in Callers : Return(c)
  \/ \E t \in ThreadIds : ThreadConfig(t)
  \/ \E t \in ThreadIds : ThreadRun(t)
  \/ \E t \in ThreadIds : ThreadExit(t)
  \/ \E t \in ThreadIds : ThreadDangling(t)
  \/ \E t \in ThreadIds : ThreadCrash(t)

\* two calls interleaved at statement granularity, the listener threads
\* running freely
SpecRace == Init /\ [][NextRace]_vars

(* ============================ claims ================================== *)
AllIdle == \A c \in Callers : pc[c] = "idle"
\* caller c has finished a call of kind op and is about to return
AtReturn(c, op) == pc[c] = "ret" /\ Op(call[c].args) = op

\* C1: when a Stop call returns, the listener thread that the handle named
\* when the call began has left run_crow.
C1_StopWaitsForListener ==
  \A c \in Callers :
    (AtReturn(c, "stop") /\ entry[c].crow_server # 0)
      => ~Live(threads[entry[c].crow_server])

\* C2: at most one thread launched by Start has been started and has not
\* yet exited.
C2_AtMostOneListener == Cardinality(LiveIn(threads)) <= 1

\* C3: between controller calls the handle crow_server is non-null exactly
\* when a launched listener thread is still running.
C3_HandleIffRunning ==
  AllIdle => ((crow_server # 0) <=> (LiveIn(threads) # {}))

\* C4: when a Stop call returns, is_routed is false, the handle is null and
\* app is a fresh instance with no route and no listener thread on it.
C4_StopLeavesFreshIdle ==
  \A c \in Callers :
    AtReturn(c, "stop")
      => /\ ~is_routed
         /\ crow_server = 0
         /\ app = FreshApp
         /\ LiveIn(threads) = {}

\* C5: between controller calls is_routed is true exactly when the current
\* app instance has the root route bound, and no instance ever has the root
\* route bound more than once.
C5_RoutedIffRootBound ==
  /\ app.routes <= 1
  /\ (\A c \in Callers : pc[c] \in {"idle", "ret"})
       => (is_routed <=> (app.alive /\ app.routes = 1))

\* a second valid Start on the same instance has returned
C5_Witness ==
  /\ AtReturn(1, "start")
  /\ entry[1].is_routed /\ entry[1].routes = 1
  /\ is_routed /\ app.routes = 1

\* the call of caller c is a valid Start that began while the listener named
\* by the handle was running
SwapStart(c) ==
  /\ Op(call[c].args) = "start"
  /\ entry[c].crow_server # 0
  /\ entry[c].crow_server \in entry[c].live

\* C6: a valid Start made while the listener of the handle is running
\* launches no thread, binds no route, leaves the handle, the lock and the
\* listener's bound port as they were, and makes requests return the new
\* document.
C6_StartWhileRunningSwapsDocument ==
  \A c \in Callers :
    (pc[c] = "ret" /\ SwapStart(c))
      => /\ Len(threads) = entry[c].nthreads
         /\ app.routes = entry[c].routes
         /\ is_routed = entry[c].is_routed
         /\ crow_server = entry[c].crow_server
         /\ mlocked = entry[c].mlocked
         /\ served_html = Html(call[c].args)
         /\ entry[c].hst = "listening"
              => /\ threads[crow_server].st = "listening"
                 /\ threads[crow_server].bport = entry[c].hbport
                 /\ Response(crow_server) = Html(call[c].args)

\* a Start with another document and another port has returned while the
\* listener of the first Start is serving
C6_Witness ==
  /\ pc[1] = "ret" /\ SwapStart(1)
  /\ entry[1].hst = "listening"
  /\ Port(call[1].args) # entry[1].hbport
  /\ Html(call[1].args) # entry[1].served_html

\* C7: a valid Start that begins while no listener thread is running has,
\* when it returns, launched a new thread with the address and port of the
\* call.
C7_StartLaunchesWhenNoListener ==
  \A c \in Callers :
    (AtReturn(c, "start") /\ entry[c].live = {})
      => /\ Len(threads) = entry[c].nthreads + 1
         /\ crow_server = Len(threads)
         /\ threads[crow_server].st \in {"created", "configured"}
              => /\ threads[crow_server].addr = Addr(call[c].args)
                 /\ threads[crow_server].port = Port(call[c].args)

\* C8: once the listener of the latest Start has failed to bind, the
\* controller is Idle between calls: handle null, is_routed false, no route.
C8_BindFailureLeavesIdle ==
  (AllIdle /\ Len(threads) > 0 /\ threads[Len(threads)].st = "failed")
    => /\ crow_server = 0
       /\ ~is_routed
       /\ app.routes = 0

\* the argument list is one the validation is said to reject: a document
\* that is neither a string nor the number 0, a port that is not an integer
\* scalar, or an address that is not a string
IsZero(a) == a.cls = "double" /\ a.n = 1 /\ a.v10 = 0
IsIntegerScalar(a) == a.cls = "double" /\ a.n = 1 /\ a.v10 % 10 = 0
Invalid(args) ==
  /\ Len(args) > 0
  /\ ~IsZero(args[1])
  /\ \/ ~is_string(args[1])
     \/ Len(args) > 1 /\ ~IsIntegerScalar(args[2])
     \/ Len(args) > 2 /\ ~is_string(args[3])

\* C9: a call with a non-string document (other than 0), a non-integer port
\* or a non-string address returns an error and leaves the document,
\* is_routed, the handle, the routes, the threads and the lock untouched.
C9_InvalidArgsRejected ==
  \A c \in Callers :
    (pc[c] = "ret" /\ Invalid(call[c].args))
      => /\ call[c].res = "error"
         /\ served_html = entry[c].served_html
         /\ is_routed = entry[c].is_routed
         /\ crow_server = entry[c].crow_server
         /\ app.routes = entry[c].routes
         /\ mlocked = entry[c].mlocked
         /\ Len(threads) = entry[c].nthreads

C11_HooksOncePerCycle ==
  \A c \in Callers :
    /\ (AtReturn(c, "start") /\ entry[c].crow_server # 0)
         => call[c].locks = 0
    /\ (AtReturn(c, "stop") /\ entry[c].crow_server = 0)
         => call[c].unlocks = 0

\* C11 as amended: every valid Start invokes the lock hook exactly once and
\* leaves the function locked, every Stop invokes the unlock hook exactly
\* once and leaves it unlocked, and a rejected call invokes neither.
C11_HooksOncePerCall ==
  \A c \in Callers :
    /\ AtReturn(c, "start")
         => call[c].locks = 1 /\ call[c].unlocks = 0 /\ mlocked
    /\ AtReturn(c, "stop")
         => call[c].locks = 0 /\ call[c].unlocks = 1 /\ ~mlocked
    /\ AtReturn(c, "error")
         => call[c].locks = 0 /\ call[c].unlocks = 0
            /\ mlocked = entry[c].mlocked

\* a document-swap Start has invoked the lock hook again
C11_Witness ==
  /\ AtReturn(1, "start")
  /\ entry[1].crow_server # 0 /\ entry[1].mlocked
  /\ call[1].locks = 1

\* the documents some valid Start of the model passes
Documents == {Html(args) : args \in {a \in ArgLists : Op(a) = "start"}}

\* C12: a request handled while a Start is writing served_html returns the
\* complete old or the complete new document: every response body a client
\* receives from the root route is a document some Start passed whole.
C12_NoTornRead ==
  resp \in {"none", "404 Not Found"} \cup Documents

\* C13 as claimed: once a valid Start has returned, every request a
\* listener accepts gets the document of the Start that returned last, up
\* to the moment a later Start returns (requests that overlap the write of
\* served_html itself are left to C12).
C13_ServesLastReturnedStart ==
  (last.doc # {} /\ Writers = {})
    => \A t \in ThreadIds : Answers(t) \subseteq last.doc

\* no Start or Stop call is in progress
NoCallInProgress ==
  \A c \in Callers :
    pc[c] = "idle" \/ (pc[c] = "ret" /\ Op(call[c].args) = "error")

\* C13 as amended: every request the listener named by the handle accepts
\* after a valid Start has returned, and before the next Start or Stop call
\* begins, gets exactly the document passed to that Start; so does one it
\* accepts when that Start is about to return.
C13_ServesStartedDocument ==
  /\ (NoCallInProgress /\ last.op = "start" /\ crow_server # 0)
       => Answers(crow_server) \subseteq last.doc
  /\ \A c \in Callers :
       (AtReturn(c, "start") /\ crow_server # 0)
         => Answers(crow_server) \subseteq {Html(call[c].args)}

\* a document-swap Start is returning and the listener answers with its
\* document
C13_Witness ==
  /\ AtReturn(1, "start")
  /\ entry[1].hst = "listening"
  /\ Html(call[1].args) # entry[1].served_html
  /\ Answers(crow_server) = {Html(call[1].args)}

\* caller c is returning from a valid Start that followed a Stop and
\* launched a listener on a port other than the launch port of every thread
\* of the stopped cycles that is still around
RestartOnOtherPort(c) ==
  /\ AtReturn(c, "start")
  /\ last.op = "stop"
  /\ entry[c].nthreads > 0
  /\ Len(threads) = entry[c].nthreads + 1
  /\ \A t \in 1..entry[c].nthreads :
       Live(threads[t]) => threads[t].port # Port(call[c].args)

\* C14: after Start on port1, Stop, Start (doc2, port2) with port2 # port1,
\* no thread of the stopped cycle holds a listening socket any more, and the
\* new listener, once it listens, is bound to port2 and answers doc2.
C14_StoppedCycleIsGone ==
  \A c \in Callers :
    RestartOnOtherPort(c)
      => /\ \A t \in 1..entry[c].nthreads : ~Holding(threads[t])
         /\ threads[crow_server].st = "listening"
              => /\ threads[crow_server].bport = Port(call[c].args)
                 /\ Answers(crow_server) \subseteq {Html(call[c].args)}

\* the statements of a call that mutate the server instance app or the
\* listener handle crow_server
Mutating == {"l139", "l149", "l150", "l54", "l70", "l73", "l74"}

\* both callers are inside Start calls that found the same threads
RacingStarts ==
  /\ \A c \in Callers :
       pc[c] \notin {"idle", "aborted"} /\ Op(call[c].args) = "start"
  /\ \A c, d \in Callers : entry[c].nthreads = entry[d].nthreads

\* a Start is in progress together with another Start or a Stop
StartRaces ==
  /\ \A c \in Callers :
       pc[c] \notin {"idle", "aborted"} /\ Op(call[c].args) # "error"
  /\ \E c \in Callers : Op(call[c].args) = "start"

\* C15: when two controller calls are interleaved statement by statement,
\* the route is registered at most once on an instance, two Starts that
\* race launch at most one listener thread between them, and no two calls
\* are at statements that mutate the server instance or the handle at the
\* same time.
C15_RacingCallsStaySafe ==
  /\ app.routes <= 1
  /\ RacingStarts
       => \A c \in Callers : Len(threads) <= entry[c].nthreads + 1
  /\ StartRaces
       => Cardinality({c \in Callers : pc[c] \in Mutating}) <= 1

\* C16: once a Stop has returned, and as long as no further call is made,
\* no thread launched by an earlier Start is in the accept loop, however
\* early the Stop came after the Start.
C16_StopCancelsListener ==
  (AllIdle /\ last.op = "stop")
    => \A t \in ThreadIds : threads[t].st \notin {"listening", "wedged"}

\* caller c is in a valid Start that was given no port and no address, and
\* has passed the statement at which the document is stored
DefaultedStart(c) ==
  /\ Op(call[c].args) = "start"
  /\ Len(call[c].args) <= 1
  /\ pc[c] \in {"l147", "l149", "l150", "l154", "ret"}

\* C17: a Start with no arguments stores the document "This is an Octave
\* WebServer instance!"; a Start with no arguments or with the document
\* only hands address 0.0.0.0 and port 8080 to the listener thread it
\* launches, and a first listener launched so is bound to port 8080.
C17_OmittedArgsTakeDefaults ==
  \A c \in Callers :
    DefaultedStart(c)
      => /\ Len(call[c].args) = 0
              => served_html = "This is an Octave WebServer instance!"
         /\ Len(call[c].args) = 1
              => served_html = string_value(call[c].args[1])
         /\ \A t \in ThreadIds :
              (t > entry[c].nthreads /\ Live(threads[t]))
                => /\ threads[t].addr = "0.0.0.0"
                   /\ threads[t].port = 8080
                   /\ (t = 1 /\ threads[t].st = "listening")
                        => threads[t].bport = 8080

\* a Start without arguments has returned and the listener it launched is
\* accepting on the default port
C17_Witness ==
  /\ AtReturn(1, "start")
  /\ call[1].args = <<>>
  /\ Len(threads) = 1 /\ entry[1].nthreads = 0
  /\ threads[1].st = "listening" /\ threads[1].bport = 8080
  /\ served_html = "This is an Octave WebServer instance!"

\* C18: whenever stop_crow has run the destructor of app (line 73) or has
\* just constructed the new instance in its place (line 74), no thread
\* launched by Start is inside run_crow, neither in app.run () nor on its
\* way to it.
C18_DestroyOnlyAfterListenerLeft ==
  \A c \in Callers :
    pc[c] \in {"l74", "l75"} => LiveIn(threads) = {}

\* C19: whenever a thread launched by Start is in the accept loop, the app
\* instance it runs on has the root route bound, so that a GET / is
\* answered with a stored document and never with the library's 404.
C19_ListenerHasRoute ==
  \A t \in ThreadIds :
    threads[t].st = "listening"
      => /\ app.alive /\ app.routes = 1
         /\ "404 Not Found" \notin Answers(t)

\* caller c is in a call whose first argument is the numeric scalar 0
SentinelCall(c) ==
  /\ pc[c] \notin {"idle", "aborted"}
  /\ Len(call[c].args) > 0
  /\ IsZero(call[c].args[1])

\* C20: a call whose first argument is the numeric scalar 0 performs Stop
\* whatever the other arguments are: they are not validated (the call does
\* not fail) and not applied (no thread is launched, no route bound), and
\* throughout the call served_html stays what it was when the call began,
\* which is the document of the last valid Start.
C20_SentinelOnlyStops ==
  \A c \in Callers :
    SentinelCall(c)
      => /\ Op(call[c].args) = "stop"
         /\ call[c].res = "ok"
         /\ served_html = entry[c].served_html
         /\ last.doc # {} => served_html \in last.doc
         /\ Len(threads) = entry[c].nthreads
         /\ app.routes <= entry[c].routes
         /\ pc[c] = "ret"
              => /\ call[c].unlocks = 1 /\ call[c].locks = 0
                 /\ crow_server = 0 /\ ~is_routed
                 /\ app.alive /\ app.routes = 0

\* a sentinel call that also carries a port and an address of the wrong
\* types has returned, after a Start that stored a document
C20_Witness ==
  /\ AtReturn(1, "stop")
  /\ Len(call[1].args) = 3
  /\ ~is_string(call[1].args[3])
  /\ entry[1].crow_server # 0
  /\ entry[1].served_html # ""
  /\ served_html = entry[1].served_html

====
